---- MODULE Spec2Model ----
(***************************************************************************)
(* A model of the git-server HTTP service (src/src/main.rs): six handlers  *)
(* over bare Git repositories on the local disk.                           *)
(*                                                                         *)
(* The disk (fs) is the only persistent state.  Every handler is an        *)
(* operator from (fs, inputs) to an outcome and the disk it leaves behind; *)
(* the handlers hold no await point after extraction of their inputs, so   *)
(* each runs to completion and concurrent requests are interleavings of    *)
(* whole handlers.                                                         *)
(*                                                                         *)
(* The git2 library is modelled by what the handlers observe of it: a      *)
(* repository is a record of its HEAD, its references in iteration order,  *)
(* its object database (a partial map from object ids to objects, so that  *)
(* a missing or corrupt object is an id outside its domain), the blame of  *)
(* each path at HEAD, and the plain files of the repository directory.     *)
(***************************************************************************)
EXTENDS Integers, Sequences, FiniteSets, TLC

VARIABLES fs, req, outcome, response, memo

vars == << fs, req, outcome, response, memo >>

(***************************************************************************)
(* Bounds                                                                  *)
(***************************************************************************)
\* Longest wildcard path ({*path}) a request carries, in segments.
MaxPathLen == 2

(***************************************************************************)
(* Strings that the code takes apart are sequences of characters.          *)
(***************************************************************************)
REPOS == << "r", "e", "p", "o", "s" >>
GIT_EXT == << "g", "i", "t" >>

\* The marker of a byte string that is not valid UTF-8 (Option<&str> = None).
NonUtf8 == "<non-utf8>"

\* The largest index of a "." in a component, 0 when there is none.
LastDot(s) ==
    LET dots == { i \in 1..Len(s) : s[i] = "." }
    IN  IF dots = {} THEN 0 ELSE CHOOSE i \in dots : \A j \in dots : j <= i

\* Path::file_stem of a component: the part before the last ".", the whole
\* component when it has no "." or only a leading one.
FileStem(s) ==
    IF LastDot(s) <= 1 THEN s ELSE SubSeq(s, 1, LastDot(s) - 1)

\* PathBuf::join with a single relative component.
Join(path, component) == Append(path, component)

\* PathBuf::set_extension: replaces the extension of the last component.
SetExtension(path, ext) ==
    LET n == Len(path)
        last == path[n]
    IN  IF last = << ".", "." >>
          THEN path
          ELSE [path EXCEPT ![n] = FileStem(last) \o << "." >> \o ext]

\* Oid::to_string: two lowercase hexadecimal digits for each byte.
HexDigit(d) ==
    << "0", "1", "2", "3", "4", "5", "6", "7",
       "8", "9", "a", "b", "c", "d", "e", "f" >>[d + 1]

RECURSIVE OidToString(_)
OidToString(oid) ==
    IF oid = << >> THEN << >>
    ELSE << HexDigit(Head(oid) \div 16), HexDigit(Head(oid) % 16) >>
             \o OidToString(Tail(oid))

(***************************************************************************)
(* Outcomes of a handler: Result<T, Error> (lines 79-83), or the unwinding *)
(* of a failed unwrap, which ends the handler without any value.           *)
(***************************************************************************)
Ok(v) == [kind |-> "Ok", val |-> v]
ErrGit(cause) == [kind |-> "Git", cause |-> cause]
ErrNotFound == [kind |-> "NotFound"]
Panicked(at) == [kind |-> "Panic", at |-> at]

\* Result<T, git2::Error> of a library call.
LibOk(v) == [ok |-> TRUE, val |-> v]
LibErr(cause) == [ok |-> FALSE, cause |-> cause]

\* impl From<git2::Error> for Error: what the ? operator applies.
FromGit2Error(cause) == ErrGit(cause)

\* impl IntoResponse for Error, and axum's responses for the Ok values. A
\* handler that unwinds sends nothing: the connection is closed.
IntoResponse(o) ==
    CASE o.kind = "Ok" -> [status |-> 200, body |-> o.val]
      [] o.kind = "Git" ->
            [status |-> 500, body |-> << "Something went wrong when: ", o.cause >>]
      [] o.kind = "NotFound" -> [status |-> 404, body |-> << >>]
      [] OTHER -> [status |-> 0, body |-> << >>]

(***************************************************************************)
(* Repositories the disk may hold. The service never writes objects or     *)
(* references: what a repository holds was put there by Git itself.        *)
(***************************************************************************)
Blob(content) == [type |-> "blob", content |-> content]
Tree(entries) == [type |-> "tree", entries |-> entries]
Commit(tree, message, committer_time, author_time) ==
    [type |-> "commit", tree |-> tree, message |-> message,
     committer_time |-> committer_time, author_time |-> author_time]
Entry(name, kind, id) == [name |-> name, kind |-> kind, id |-> id]
Ref(ns, short, target) == [ns |-> ns, short |-> short, target |-> target]

b0 == << 176 >>
b1 == << 177 >>
b2 == << 178 >>
tSub == << 160 >>
tOld == << 161 >>
tMain == << 162 >>
tDev == << 163 >>
tBadName == << 164 >>
tModule == << 165 >>
tEmptyFile == << 166 >>
c0 == << 192 >>
c1 == << 193 >>
c2 == << 194 >>
c3 == << 195 >>
c4 == << 196 >>
c5 == << 197 >>
c6 == << 198 >>
cGone == << 207 >>

Objects ==
    (b0 :> Blob(<< >>)) @@
    (b1 :> Blob(<< 104, 105 >>)) @@
    (b2 :> Blob(<< 98, 121, 101 >>)) @@
    (tSub :> Tree(<< Entry("a.txt", "blob", b2) >>)) @@
    (tOld :> Tree(<< Entry("z.txt", "blob", b2) >>)) @@
    (tMain :> Tree(<< Entry("z.txt", "blob", b2), Entry("dir", "tree", tSub),
                      Entry("a.txt", "blob", b1) >>)) @@
    (tDev :> Tree(<< Entry("a.txt", "blob", b2), Entry("dir", "tree", tSub) >>)) @@
    (tBadName :> Tree(<< Entry("a.txt", "blob", b1), Entry(NonUtf8, "blob", b2) >>)) @@
    (tModule :> Tree(<< Entry("a.txt", "blob", b1), Entry("dir", "commit", cGone) >>)) @@
    (tEmptyFile :> Tree(<< Entry("a.txt", "blob", b0) >>)) @@
    (c0 :> Commit(tOld, "initial\n", 100, 90)) @@
    (c1 :> Commit(tMain, "first\n", 200, 190)) @@
    (c2 :> Commit(tDev, "second\n", 300, 290)) @@
    (c3 :> Commit(tBadName, "third\n", 400, 390)) @@
    (c4 :> Commit(tModule, "fourth\n", 500, 490)) @@
    (c5 :> Commit(tEmptyFile, "fifth\n", 600, 590)) @@
    (c6 :> Commit(tMain, NonUtf8, 700, 690))

\* The object database without some objects (lost or corrupt).
Without(odb, gone) == [oid \in DOMAIN odb \ gone |-> odb[oid]]

RepoFiles ==
    (<< "HEAD" >> :> [kind |-> "file", bytes |-> << 114 >>]) @@
    (<< "objects" >> :> [kind |-> "dir"])

Repo(head_, refs, odb, blame) ==
    [head |-> head_, refs |-> refs, odb |-> odb,
     blame |-> blame, files |-> RepoFiles]

StdRefs ==
    << Ref("heads", "main", c1), Ref("remotes", "origin/next", c0),
       Ref("heads", "dev", c2), Ref("tags", "v1", c0) >>

\* The blame of every file of c1's tree: the first line of a.txt was last
\* changed by c1, later lines by c0.
BlameMain ==
    (<< "z.txt" >> :> << c1 >>) @@
    (<< "dir", "a.txt" >> :> << c0, c1 >>) @@
    (<< "a.txt" >> :> << c1, c0 >>)

BlameDev ==
    (<< "a.txt" >> :> << c2 >>) @@ (<< "dir", "a.txt" >> :> << c0 >>)

RepoGood == Repo("main", StdRefs, Objects, BlameMain)
RepoDev == Repo("dev", StdRefs, Objects, BlameDev)
RepoBadName ==
    Repo("main", << Ref("heads", "main", c3) >>, Objects, (<< "a.txt" >> :> << c3 >>))
RepoModule ==
    Repo("main", << Ref("heads", "main", c4) >>, Objects, (<< "a.txt" >> :> << c4 >>))
RepoEmptyFile ==
    Repo("main", << Ref("heads", "main", c5) >>, Objects, (<< "a.txt" >> :> << >>))
RepoBadMessage ==
    Repo("main", << Ref("heads", "main", c6) >>, Objects,
         (<< "z.txt" >> :> << c6 >>) @@ (<< "dir", "a.txt" >> :> << c6 >>)
            @@ (<< "a.txt" >> :> << c6 >>))
RepoNoBlame ==
    Repo("main", StdRefs, Objects, (<< "z.txt" >> :> << c1 >>))
RepoMissingCommit ==
    Repo("main", StdRefs, Without(Objects, {c0}), BlameMain)
RepoMissingBlob ==
    Repo("main", StdRefs, Without(Objects, {b1}), BlameMain)
RepoMissingTree ==
    Repo("main", StdRefs, Without(Objects, {tSub}), BlameMain)
RepoDangling ==
    Repo("main", << Ref("heads", "main", cGone), Ref("heads", "dev", c2) >>,
         Without(Objects, {tDev}), BlameMain)
RepoBadBranch ==
    Repo("main", << Ref("heads", "main", c1), Ref("heads", NonUtf8, c2) >>,
         Objects, BlameMain)

\* A repository that Repository::init_bare has just created: an unborn HEAD.
EmptyRepository == Repo("master", << >>, << >>, << >>)

\* The disk holds, at a path, a plain file or a repository. The service
\* writes no object and no reference, so a repository is named and its
\* content is looked up here.
PlainFile == "file"

Contents(on_disk) ==
    CASE on_disk = "good" -> RepoGood
      [] on_disk = "dev" -> RepoDev
      [] on_disk = "bad name" -> RepoBadName
      [] on_disk = "module" -> RepoModule
      [] on_disk = "empty file" -> RepoEmptyFile
      [] on_disk = "bad message" -> RepoBadMessage
      [] on_disk = "no blame" -> RepoNoBlame
      [] on_disk = "missing commit" -> RepoMissingCommit
      [] on_disk = "missing blob" -> RepoMissingBlob
      [] on_disk = "missing tree" -> RepoMissingTree
      [] on_disk = "dangling" -> RepoDangling
      [] on_disk = "bad branch" -> RepoBadBranch
      [] on_disk = "empty" -> EmptyRepository

(***************************************************************************)
(* The git2 calls of the handlers, over the repository record.             *)
(***************************************************************************)
\* Repository::open_bare(path)
open_bare(disk, path) ==
    IF path \in DOMAIN disk /\ disk[path] # PlainFile
      THEN LibOk(Contents(disk[path]))
      ELSE LibErr("open_bare")

\* Repository::init_bare(path): creates the repository, or re-initialises an
\* existing one, whose references and objects it leaves alone.
init_bare(disk, path) ==
    IF path \notin DOMAIN disk
      THEN LibOk(disk @@ (path :> "empty"))
      ELSE IF disk[path] # PlainFile THEN LibOk(disk) ELSE LibErr("init_bare")

\* The object with this id and of this type, when the database holds it.
Lookup(repo, oid, type, call) ==
    IF oid \in DOMAIN repo.odb /\ repo.odb[oid].type = type
      THEN LibOk(oid)
      ELSE LibErr(call)

\* The references of one namespace with this short name, in iteration order.
RefsNamed(repo, ns, short) ==
    SelectSeq(repo.refs, LAMBDA r : r.ns = ns /\ r.short = short)

\* Repository::find_branch(name, branch_type)
find_branch(repo, name, ns) ==
    IF RefsNamed(repo, ns, name) = << >>
      THEN LibErr("find_branch")
      ELSE LibOk(RefsNamed(repo, ns, name)[1])

\* Repository::head(): the branch HEAD names; an error when it is unborn.
head(repo) ==
    IF RefsNamed(repo, "heads", repo.head) = << >>
      THEN LibErr("head")
      ELSE LibOk(RefsNamed(repo, "heads", repo.head)[1])

\* Reference::peel_to_commit()
peel_to_commit(repo, ref) == Lookup(repo, ref.target, "commit", "peel_to_commit")

\* Commit::tree()
commit_tree(repo, commit) == Lookup(repo, repo.odb[commit].tree, "tree", "tree")

\* Reference::peel_to_tree()
peel_to_tree(repo, ref) ==
    IF ~peel_to_commit(repo, ref).ok THEN LibErr("peel_to_tree")
    ELSE IF ~commit_tree(repo, ref.target).ok THEN LibErr("peel_to_tree")
    ELSE commit_tree(repo, ref.target)

\* TreeEntry::to_object(repo): the entry's object, of the kind its mode says.
to_object(repo, entry) == Lookup(repo, entry.id, entry.kind, "to_object")

\* Repository::blame_file(path, options): the hunks of the file at HEAD.
blame_file(repo, path) ==
    IF path \in DOMAIN repo.blame THEN LibOk(repo.blame[path]) ELSE LibErr("blame_file")

\* Repository::find_commit(oid)
find_commit(repo, oid) == Lookup(repo, oid, "commit", "find_commit")

\* Repository::find_blob(oid)
find_blob(repo, oid) == Lookup(repo, oid, "blob", "find_blob")

\* Repository::branches(filter): None iterates the branches of every type,
\* local and remote-tracking; other references (tags) are no branches.
branches(repo, filter) ==
    SelectSeq(repo.refs,
              LAMBDA r : IF filter = "None" THEN r.ns \in {"heads", "remotes"}
                                            ELSE r.ns = filter)

\* Tree::get_path(path): descends one component at a time.
RECURSIVE get_path(_, _, _)
get_path(repo, tree, path) ==
    LET hits == SelectSeq(repo.odb[tree].entries, LAMBDA e : e.name = Head(path))
    IN  IF path = << >> \/ hits = << >> THEN LibErr("get_path")
        ELSE IF Len(path) = 1 THEN LibOk(hits[1])
        ELSE IF ~Lookup(repo, hits[1].id, "tree", "get_path").ok THEN LibErr("get_path")
        ELSE get_path(repo, hits[1].id, Tail(path))

\* std::fs::read(path) of a file below a repository directory.
fs_read(disk, dir, path) ==
    IF /\ dir \in DOMAIN disk
       /\ disk[dir] # PlainFile
       /\ path \in DOMAIN Contents(disk[dir]).files
       /\ Contents(disk[dir]).files[path].kind = "file"
      THEN LibOk(Contents(disk[dir]).files[path].bytes)
      ELSE LibErr("read")

(***************************************************************************)
(* enum Node (lines 124-137), in the shape serde gives it on the wire.     *)
(***************************************************************************)
File(name, commit, message, modified) ==
    [type |-> "file", name |-> name, commit |-> commit,
     message |-> message, modified |-> modified]

Directory(name, childs) ==
    [type |-> "directory", name |-> name, childs |-> childs]

(***************************************************************************)
(* process_tree (lines 156-195)                                            *)
(***************************************************************************)
\* A slip: the blame of the entry's name alone, without its directories.
EntryNameOnly(prefix, name) == << name >>

\* line 165: prefix.as_ref().join(&name)
FullPath(prefix, name) == Join(prefix, name)

\* line 177: blame.get_index(0), None when the blame has no hunk.
FirstHunk(blame) == IF Len(blame) = 0 THEN << >> ELSE << blame[1] >>

\* line 181: commit.committer().when().seconds()
Modified(commit) == commit.committer_time

\* A slip: the node put in front of its siblings.
PushFront(parent, node) == << node >> \o parent

\* line 191: parent.push(node)
Push(parent, node) == Append(parent, node)

\* lines 174-188: the File node of a non-tree entry, from the blame of its path.
FileNode(repo, name, full_path) ==
    LET blame == blame_file(repo, full_path)
        hunk == FirstHunk(blame.val)
        commit_id == hunk[1]
        commit == find_commit(repo, commit_id)
        message == repo.odb[commit_id].message
    IN  IF ~blame.ok THEN FromGit2Error(blame.cause)
        ELSE IF hunk = << >> THEN Panicked("blame.get_index(0)")
        ELSE IF ~commit.ok THEN FromGit2Error(commit.cause)
        ELSE IF message = NonUtf8 THEN Panicked("commit.message()")
        ELSE Ok(File(name, OidToString(commit_id), message,
                     Modified(repo.odb[commit_id])))

RECURSIVE process_tree(_, _, _, _)
RECURSIVE ProcessEntries(_, _, _, _, _)

\* The body of the loop for the entries from index i on; parent holds the
\* nodes pushed so far. The first failure ends the walk.
ProcessEntries(repo, entries, i, parent, prefix) ==
    IF i > Len(entries) THEN Ok(parent)
    ELSE
      LET entry == entries[i]
          name == entry.name
          full_path == FullPath(prefix, name)
          object == to_object(repo, entry)
          node == IF repo.odb[entry.id].type = "tree"
                    THEN LET childs == process_tree(repo, entry.id, << >>, full_path)
                         IN  IF childs.kind = "Ok"
                               THEN Ok(Directory(name, childs.val))
                               ELSE childs
                    ELSE FileNode(repo, name, full_path)
      IN  IF name = NonUtf8 THEN Panicked("entry.name()")
          ELSE IF ~object.ok THEN FromGit2Error(object.cause)
          ELSE IF node.kind # "Ok" THEN node
          ELSE ProcessEntries(repo, entries, i + 1, Push(parent, node.val), prefix)

process_tree(repo, tree, parent, prefix) ==
    ProcessEntries(repo, repo.odb[tree].entries, 1, parent, prefix)

(***************************************************************************)
(* The handlers. Each gives its outcome and the disk it leaves.            *)
(***************************************************************************)
Done(o, disk) == [out |-> o, fs |-> disk]

\* lines 69-70: the path create_repo initialises.
CreatePath(user, name) ==
    SetExtension(Join(Join(<< REPOS >>, user), name), GIT_EXT)

\* lines 105, 115, 140, 200, 218: the path the other handlers use.
RepoPath(user, name) == Join(Join(<< REPOS >>, user), name)

\* create_repo (lines 66-77)
create_repo(disk, user, name) ==
    LET init == init_bare(disk, CreatePath(user, name))
    IN  IF init.ok THEN Done(Ok(<< >>), init.val)
                   ELSE Done(FromGit2Error(init.cause), disk)

\* A slip: a probe that initialises the repository it looks for.
handle_git_init(disk, user, name) ==
    LET init == init_bare(disk, RepoPath(user, name))
    IN  IF init.ok THEN Done(Ok(<< >>), init.val)
                   ELSE Done(FromGit2Error(init.cause), disk)

\* handle_git (lines 104-110)
handle_git(disk, user, name) == Done(Ok(<< >>), disk)

\* A slip: the read error passed on as a server fault.
DumbPropagate(cause) == ErrGit(cause)

\* line 119: .map_err(|_| Error::NotFound)
DumbMapErr(cause) == ErrNotFound

\* handle_dumb_protocol (lines 112-122)
handle_dumb_protocol(disk, user, name, path) ==
    LET res == fs_read(disk, RepoPath(user, name), path)
    IN  IF res.ok THEN Done(Ok(res.val), disk)
                  ELSE Done(DumbMapErr(res.cause), disk)

\* fetch_repo (lines 139-154)
fetch_repo(disk, user, name) ==
    LET repo == open_bare(disk, RepoPath(user, name))
        ref == head(repo.val)
        tree == peel_to_tree(repo.val, ref.val)
        root == process_tree(repo.val, tree.val, << >>, << >>)
    IN  IF ~repo.ok THEN Done(FromGit2Error(repo.cause), disk)
        ELSE IF ~ref.ok THEN Done(FromGit2Error(ref.cause), disk)
        ELSE IF ~tree.ok THEN Done(FromGit2Error(tree.cause), disk)
        ELSE IF root.kind # "Ok" THEN Done(root, disk)
        ELSE Done(Ok(Directory("root", root.val)), disk)

\* line 206: repo.branches(None)
BranchFilter == "None"

\* The loop of get_branches from index i on (lines 206-210).
RECURSIVE PushNames(_, _, _)
PushNames(refs, i, names) ==
    IF i > Len(refs) THEN Ok(names)
    ELSE IF refs[i].short = NonUtf8 THEN Panicked("branch.name()")
    ELSE PushNames(refs, i + 1, Append(names, refs[i].short))

\* get_branches (lines 197-213)
get_branches(disk, user, name) ==
    LET repo == open_bare(disk, RepoPath(user, name))
    IN  IF ~repo.ok THEN Done(FromGit2Error(repo.cause), disk)
        ELSE Done(PushNames(branches(repo.val, BranchFilter), 1, << >>), disk)

\* A slip: the branch of HEAD in place of the branch named.
HeadRef(repo, branch_name) == head(repo)

\* line 234: repo.find_branch(branch_name, BranchType::Local)
BranchRef(repo, branch_name) == find_branch(repo, branch_name, "heads")

\* read_blob_from_branch (lines 229-249)
read_blob_from_branch(repo, file_path, branch_name) ==
    LET branch == BranchRef(repo, branch_name)
        commit == peel_to_commit(repo, branch.val)
        tree == commit_tree(repo, commit.val)
        entry == get_path(repo, tree.val, file_path)
        blob == find_blob(repo, entry.val.id)
    IN  IF ~branch.ok THEN branch
        ELSE IF ~commit.ok THEN commit
        ELSE IF ~tree.ok THEN tree
        ELSE IF ~entry.ok THEN entry
        ELSE IF entry.val.kind # "blob" THEN LibErr("Path does not point to a blob")
        ELSE IF ~blob.ok THEN blob
        ELSE LibOk(repo.odb[blob.val].content)

\* A slip: the library's error passed on as a server fault.
BlobPropagate(cause) == ErrGit(cause)

\* line 224: .map_err(|_| Error::NotFound)
BlobMapErr(cause) == ErrNotFound

\* get_blob (lines 215-227)
get_blob(disk, user, name, branch, path) ==
    LET repo == open_bare(disk, RepoPath(user, name))
        blob == read_blob_from_branch(repo.val, path, branch)
    IN  IF ~repo.ok THEN Done(FromGit2Error(repo.cause), disk)
        ELSE IF ~blob.ok THEN Done(BlobMapErr(blob.cause), disk)
        ELSE Done(Ok(blob.val), disk)

(***************************************************************************)
(* Requests                                                                *)
(***************************************************************************)
Users == { << "a" >>, << "b" >> }
Names == { << "p" >>, << "p", ".", "g", "i", "t" >> }
Branches == { "main", "dev" }
TreeSegments == { "a.txt", "dir" }
DiskSegments == { "HEAD", "objects" }

\* The non-empty paths of at most MaxPathLen segments.
PathsOver(segments) ==
    UNION { [1..n -> segments] : n \in 1..MaxPathLen }

Request(op, user, name, branch, path) ==
    [op |-> op, user |-> user, name |-> name, branch |-> branch, path |-> path]

NoRequest == Request("none", << >>, << >>, "", << >>)

\* Nothing at a path.
Absent == "absent"

\* A disk with repositories (or plain files) at some of the four paths.
Disk(ap, apgit, bp, bpgit) ==
    LET at == (RepoPath(<< "a" >>, << "p" >>) :> ap)
                @@ (RepoPath(<< "a" >>, << "p", ".", "g", "i", "t" >>) :> apgit)
                @@ (RepoPath(<< "b" >>, << "p" >>) :> bp)
                @@ (RepoPath(<< "b" >>, << "p", ".", "g", "i", "t" >>) :> bpgit)
    IN  [path \in { q \in DOMAIN at : at[q] # Absent } |-> at[path]]

\* The disks the service may be started on.
InitialDisks ==
    { << >>,
      Disk("good", "dev", Absent, PlainFile),
      Disk("bad name", Absent, "module", "empty file"),
      Disk("bad message", "no blame", "missing commit", Absent),
      Disk("missing blob", Absent, "missing tree", "dangling"),
      Disk("bad branch", Absent, "empty", Absent) }

(***************************************************************************)
(* The state machine                                                       *)
(***************************************************************************)
\* The first tree or branch listing since the disk was last written, and
\* whether another request has been served since.
Remember(m, r, o) ==
    IF r.op = "create" THEN << >>
    ELSE IF m = << >>
      THEN IF r.op \in {"files", "branches"}
             THEN << [req |-> r, out |-> o, others |-> FALSE] >>
             ELSE << >>
    ELSE IF m[1].req = r THEN m
    ELSE << [m[1] EXCEPT !.others = TRUE] >>

\* One request served; memo is a history variable.
Serve(r, done) ==
    /\ fs' = done.fs
    /\ req' = r
    /\ outcome' = done.out
    /\ response' = IntoResponse(done.out)
    /\ memo' = Remember(memo, r, done.out)

Init ==
    /\ fs \in InitialDisks
    /\ req = NoRequest
    /\ outcome = Ok(<< >>)
    /\ response = IntoResponse(Ok(<< >>))
    /\ memo = << >>

\* POST /repo
CreateRepo ==
    \E user \in Users, name \in Names :
        Serve(Request("create", user, name, "", << >>), create_repo(fs, user, name))

\* GET /repo/{user}/{name}
HandleGit ==
    \E user \in Users, name \in Names :
        Serve(Request("probe", user, name, "", << >>), handle_git(fs, user, name))

\* GET /repo/{user}/{name}/{*path}
HandleDumbProtocol ==
    \E user \in Users, name \in Names, path \in PathsOver(DiskSegments) :
        Serve(Request("dumb", user, name, "", path),
              handle_dumb_protocol(fs, user, name, path))

\* GET /repo/{user}/{name}/files
FetchRepo ==
    \E user \in Users, name \in Names :
        Serve(Request("files", user, name, "", << >>), fetch_repo(fs, user, name))

\* GET /repo/{user}/{name}/branches
GetBranches ==
    \E user \in Users, name \in Names :
        Serve(Request("branches", user, name, "", << >>), get_branches(fs, user, name))

\* GET /repo/{user}/{name}/blob/{branch}/{*path}
GetBlob ==
    \E user \in Users, name \in Names, branch \in Branches,
       path \in PathsOver(TreeSegments) :
        Serve(Request("blob", user, name, branch, path),
              get_blob(fs, user, name, branch, path))

Next ==
    \/ CreateRepo
    \/ HandleGit
    \/ HandleDumbProtocol
    \/ FetchRepo
    \/ GetBranches
    \/ GetBlob

Spec == Init /\ [][Next]_vars

(***************************************************************************)
(* What the properties speak of, read off the disk and the last request.   *)
(***************************************************************************)
ReqPath == RepoPath(req.user, req.name)

\* The repository the last request named is on the disk.
Openable == ReqPath \in DOMAIN fs /\ fs[ReqPath] # PlainFile

ReqRepo == Contents(fs[ReqPath])

\* The local branches called b.
LocalRefs(repo, b) ==
    { i \in 1..Len(repo.refs) : repo.refs[i].ns = "heads" /\ repo.refs[i].short = b }

\* Every (path, entry) of a tree and of the subtrees the database holds.
RECURSIVE Listing(_, _, _)
Listing(repo, tree, prefix) ==
    LET entries == repo.odb[tree].entries
    IN  UNION { { << prefix \o << entries[i].name >>, entries[i] >> }
                  \cup (IF /\ entries[i].kind = "tree"
                           /\ entries[i].id \in DOMAIN repo.odb
                           /\ repo.odb[entries[i].id].type = "tree"
                          THEN Listing(repo, entries[i].id,
                                       prefix \o << entries[i].name >>)
                          ELSE {})
                : i \in 1..Len(entries) }

\* The tip commit of local branch b and its tree are readable.
TipReadable(repo, b) ==
    \E i \in LocalRefs(repo, b) :
        /\ repo.refs[i].target \in DOMAIN repo.odb
        /\ repo.odb[repo.refs[i].target].type = "commit"
        /\ repo.odb[repo.refs[i].target].tree \in DOMAIN repo.odb
        /\ repo.odb[repo.odb[repo.refs[i].target].tree].type = "tree"

\* The tree of the tip commit of local branch b.
TipTree(repo, b) ==
    repo.odb[repo.refs[CHOOSE i \in LocalRefs(repo, b) : TRUE].target].tree

\* The entries at a path of the tree of b's tip commit (none or one).
EntriesAt(repo, b, path) ==
    { pe[2] : pe \in { x \in Listing(repo, TipTree(repo, b), << >>) : x[1] = path } }

GitCauses(op) ==
    CASE op = "create" -> { "init_bare" }
      [] op = "files" -> { "open_bare", "head", "peel_to_tree", "to_object",
                           "blame_file", "find_commit" }
      [] op \in { "branches", "blob" } -> { "open_bare" }
      [] OTHER -> {}

C2_TerminalError ==
    req.op = "files" => outcome.kind \in { "Ok", "Git", "NotFound" }

(***************************************************************************)
(* C3. The node graph mirrors the tree.                                    *)
(***************************************************************************)
\* A node without its provenance.
RECURSIVE Shape(_)
Shape(node) ==
    IF node.type = "directory"
      THEN [type |-> "directory", name |-> node.name,
            childs |-> [i \in 1..Len(node.childs) |-> Shape(node.childs[i])]]
      ELSE [type |-> "file", name |-> node.name]

\* One node for each entry of the tree, in the tree's order: a directory for
\* a tree, a file for anything else.
RECURSIVE Mirror(_, _)
Mirror(repo, tree) ==
    LET entries == repo.odb[tree].entries
    IN  [i \in 1..Len(entries) |->
            IF repo.odb[entries[i].id].type = "tree"
              THEN [type |-> "directory", name |-> entries[i].name,
                    childs |-> Mirror(repo, entries[i].id)]
              ELSE [type |-> "file", name |-> entries[i].name]]

\* C3: a successful tree request returns the directory "root" whose graph
\* has, at every depth, one node for each entry, in the tree's order.
C3_MirrorsTree ==
    (req.op = "files" /\ outcome.kind = "Ok") =>
        Shape(outcome.val) =
            [type |-> "directory", name |-> "root",
             childs |-> Mirror(ReqRepo, TipTree(ReqRepo, ReqRepo.head))]

\* A tree of three entries, the second a directory with a file in it.
C3_Witness ==
    /\ req.op = "files" /\ outcome.kind = "Ok"
    /\ Len(outcome.val.childs) = 3
    /\ outcome.val.childs[1].name = "z.txt"
    /\ outcome.val.childs[2].type = "directory"
    /\ Len(outcome.val.childs[2].childs) = 1
    /\ outcome.val.childs[2].childs[1].type = "file"

(***************************************************************************)
(* C4. File nodes carry the provenance of hunk 0 of their path's blame.    *)
(***************************************************************************)
\* The File nodes of a node graph, each with its path from the root.
RECURSIVE FilesOf(_, _)
FilesOf(nodes, prefix) ==
    UNION { IF nodes[i].type = "directory"
              THEN FilesOf(nodes[i].childs, prefix \o << nodes[i].name >>)
              ELSE { << prefix \o << nodes[i].name >>, nodes[i] >> }
            : i \in 1..Len(nodes) }

\* C4: every File node, at any depth, carries the final commit of hunk 0 of
\* the blame of its full path: its id in hex, its message and its committer
\* time.
C4_FirstHunkProvenance ==
    (req.op = "files" /\ outcome.kind = "Ok") =>
        \A pn \in FilesOf(outcome.val.childs, << >>) :
            LET final == ReqRepo.blame[pn[1]][1]
            IN  /\ pn[2].commit = OidToString(final)
                /\ pn[2].message = ReqRepo.odb[final].message
                /\ pn[2].modified = ReqRepo.odb[final].committer_time

\* A nested file whose blame has two hunks of different commits, and whose
\* name is also the name of a file of the root with another first hunk.
C4_Witness ==
    /\ req.op = "files" /\ outcome.kind = "Ok"
    /\ \E pn \in FilesOf(outcome.val.childs, << >>) :
          /\ Len(pn[1]) = 2
          /\ Len(ReqRepo.blame[pn[1]]) = 2
          /\ ReqRepo.blame[pn[1]][1] # ReqRepo.blame[pn[1]][2]
          /\ ReqRepo.blame[<< pn[1][2] >>][1] # ReqRepo.blame[pn[1]][1]
          /\ pn[2].commit = << "c", "0" >>

(***************************************************************************)
(* C5. A blob request returns the content of the branch it names.          *)
(***************************************************************************)
\* C5: the bytes returned for (branch, path) are those of the blob at path
\* in the tree of the tip commit of the local branch of that name.
C5_BranchIsolation ==
    (req.op = "blob" /\ outcome.kind = "Ok") =>
        /\ TipReadable(ReqRepo, req.branch)
        /\ \E e \in EntriesAt(ReqRepo, req.branch, req.path) :
              /\ e.kind = "blob"
              /\ outcome.val = ReqRepo.odb[e.id].content
        /\ response = [status |-> 200, body |-> outcome.val]

\* The request names a branch that is not HEAD's, and HEAD's branch holds
\* other content at the same path.
C5_Witness ==
    /\ req.op = "blob" /\ outcome.kind = "Ok"
    /\ ReqRepo.head # req.branch
    /\ TipReadable(ReqRepo, ReqRepo.head)
    /\ \E e \in EntriesAt(ReqRepo, ReqRepo.head, req.path) :
          /\ e.kind = "blob"
          /\ e.id \in DOMAIN ReqRepo.odb
          /\ ReqRepo.odb[e.id].content # outcome.val

(***************************************************************************)
(* C6. Missing path, non-blob entry and missing branch are one outcome.    *)
(***************************************************************************)
\* C6: on a repository that opens, a blob request for a branch that does
\* not exist, for a path that is not in the branch's tree, or for a path
\* whose entry is no blob, ends in Error::NotFound: 404 and an empty body.
C6_NotFoundCollapsed ==
    (/\ req.op = "blob"
     /\ Openable
     /\ \/ LocalRefs(ReqRepo, req.branch) = {}
        \/ /\ TipReadable(ReqRepo, req.branch)
           /\ \/ EntriesAt(ReqRepo, req.branch, req.path) = {}
              \/ \E e \in EntriesAt(ReqRepo, req.branch, req.path) : e.kind # "blob")
        => /\ outcome = ErrNotFound
           /\ response = [status |-> 404, body |-> << >>]

\* A request for the path of a submodule link has ended not-found.
C6_Witness ==
    /\ req.op = "blob" /\ Openable
    /\ TipReadable(ReqRepo, req.branch)
    /\ \E e \in EntriesAt(ReqRepo, req.branch, req.path) : e.kind = "commit"
    /\ response.status = 404

(***************************************************************************)
(* C7. The branch listing holds the local branches and nothing else.       *)
(***************************************************************************)
\* The short names of the local branches, in iteration order.
LocalNames(repo) ==
    LET heads == SelectSeq(repo.refs, LAMBDA r : r.ns = "heads")
    IN  [i \in 1..Len(heads) |-> heads[i].short]

\* C7: a branch listing returns the short names of the local branches, one
\* for each, in the store's order, and no other name.
C7_LocalBranchesOnly ==
    (req.op = "branches" /\ outcome.kind = "Ok") => outcome.val = LocalNames(ReqRepo)

(***************************************************************************)
(* C8. The probe succeeds only for a repository whose HEAD has a tree.     *)
(***************************************************************************)
\* C8: GET /repo/{user}/{name} answers success only when the repository
\* opens and its HEAD peels to a tree.
C8_ExistenceProbe ==
    (req.op = "probe" /\ outcome.kind = "Ok") =>
        /\ Openable
        /\ head(ReqRepo).ok
        /\ peel_to_tree(ReqRepo, head(ReqRepo).val).ok

(***************************************************************************)
(* C9. Reads leave the disk alone and repeat their results.                *)
(***************************************************************************)
\* C9: a request other than create leaves the disk as it was, and a tree or
\* branch listing repeated with no create in between has the outcome and
\* the response of the first one, whatever was read in between.
C9_ReadsIdempotent ==
    [][ req'.op # "create" =>
          /\ fs' = fs
          /\ (memo # << >> /\ memo[1].req = req') =>
                /\ outcome' = memo[1].out
                /\ response' = IntoResponse(memo[1].out) ]_vars

\* A listing is repeated after other requests and returns a result.
C9_Witness ==
    /\ memo # << >>
    /\ memo[1].req = req
    /\ memo[1].others
    /\ outcome.kind = "Ok"
    /\ outcome.val # << >>

(***************************************************************************)
(* C10. One mapping from (user, name) to the repository path.              *)
(***************************************************************************)
\* C10: after a successful create for (user, name), the path the read
\* handlers open for the same (user, name) holds the created repository.
C10_SharedPath ==
    (req.op = "create" /\ outcome.kind = "Ok") =>
        /\ CreatePath(req.user, req.name) = RepoPath(req.user, req.name)
        /\ Openable

====
